---------------------------- MODULE Spec2Model ----------------------------
(***************************************************************************)
(* A model of src/indiv1.py, the directory-tree explorer: list_files (the  *)
(* recursive scan), print_directory (the indented listing), save_to_xml    *)
(* and load_from_xml (the XML mapping) and main (the command line).        *)
(*                                                                         *)
(* Strings are sequences of one-character strings, so that basename, join, *)
(* startswith and the XML escaping act on characters.  The character       *)
(* U+0001, legal in a POSIX file name and illegal in XML 1.0, is written   *)
(* "^A".                                                                   *)
(***************************************************************************)
EXTENDS Integers, Sequences, FiniteSets, TLC

VARIABLES
    fs,              \* the current working directory: a tree of entries
    disk,            \* the XML file: <<>> when absent, <<document>> otherwise
    pc,              \* where main is
    args,            \* argparse's namespace
    directory_node,  \* main's local of that name
    stdout,          \* the lines printed so far by this run
    calls            \* the functions of the module this run has called

vars == <<fs, disk, pc, args, directory_node, stdout, calls>>

-----------------------------------------------------------------------------
(* Bounds of the exploration.                                              *)

\* Objects the environment creates before the program runs: directory
\* entries, permission denials and XML elements, all together.
MaxObjects == 3

\* The largest --max-depth explored.
MaxDepthArg == 1

-----------------------------------------------------------------------------
(* Characters and strings.                                                 *)

Sep == "/"
Dot == "."
Ctl == "^A"

\* The entry names the environment may give: a plain one, a hidden one
\* (which also carries a character XML escapes) and one with U+0001.
FsNames == { <<"a">>, <<Dot, "&">>, <<Ctl>> }

Max(S) == CHOOSE x \in S : \A y \in S : y <= x

\* str.startswith('.')
startswith_dot(s) == Len(s) > 0 /\ s[1] = Dot

\* os.path.basename: what follows the last separator.
basename(p) ==
    LET seps == { i \in 1..Len(p) : p[i] = Sep }
    IN  IF seps = {} THEN p ELSE SubSeq(p, Max(seps) + 1, Len(p))

\* os.path.join(p, n) for a relative n: os.scandir builds entry.path so.
join(p, n) ==
    IF p = <<>> THEN n
    ELSE IF p[Len(p)] = Sep THEN p \o n
    ELSE p \o <<Sep>> \o n

\* The components of a path, empty ones (doubled or trailing separators)
\* dropped.
RECURSIVE Split(_)
Split(p) ==
    LET seps == { i \in 1..Len(p) : p[i] = Sep }
    IN  IF p = <<>> THEN <<>>
        ELSE IF seps = {} THEN <<p>>
        ELSE LET i == CHOOSE j \in seps : \A k \in seps : j <= k
                 head == SubSeq(p, 1, i - 1)
                 rest == Split(SubSeq(p, i + 1, Len(p)))
             IN  IF head = <<>> THEN rest ELSE <<head>> \o rest

-----------------------------------------------------------------------------
(* The filesystem.  An entry is a record: its kind ("dir" or "file"; the   *)
(* environment creates no socket or dangling link), its name, for a        *)
(* directory its entries in the order os.scandir yields them, and whether  *)
(* listing it raises PermissionError, after `yielded` entries.             *)

Kinds == {"file", "dir"}

Entry(kind, name) ==
    [kind |-> kind, name |-> name, entries |-> <<>>,
     denied |-> FALSE, yielded |-> 0]

Missing == [kind |-> "missing", name |-> <<>>, entries |-> <<>>,
            denied |-> FALSE, yielded |-> 0]

\* The entry of directory d named n, or Missing.
Child(d, n) ==
    LET hits == { i \in 1..Len(d.entries) : d.entries[i].name = n }
    IN  IF d.kind # "dir" \/ hits = {} THEN Missing
        ELSE d.entries[CHOOSE i \in hits : TRUE]

\* What a list of components leads to, from directory d.
RECURSIVE Walk(_, _)
Walk(d, comps) ==
    IF comps = <<>> THEN d
    ELSE IF d.kind # "dir" THEN Missing
    ELSE IF Head(comps) = <<Dot>> THEN Walk(d, Tail(comps))
    ELSE Walk(Child(d, Head(comps)), Tail(comps))

\* What a relative path string names in the filesystem whose working
\* directory is root.
Resolve(root, path) ==
    IF path = <<>> THEN Missing
    ELSE LET n == Walk(root, Split(path))
         IN  IF n.kind = "file" /\ path[Len(path)] = Sep THEN Missing ELSE n

\* os.path.isdir
isdir(path) == Resolve(fs, path).kind = "dir"

\* The number of objects in a directory tree: entries and denials.
RECURSIVE FsSize(_)
RECURSIVE FsSizeSeq(_)
FsSize(n) == 1 + (IF n.denied THEN 1 ELSE 0) + FsSizeSeq(n.entries)
FsSizeSeq(s) == IF s = <<>> THEN 0 ELSE FsSize(Head(s)) + FsSizeSeq(Tail(s))

\* The positions (sequences of indices) of the directories of a tree.
RECURSIVE DirPositions(_)
DirPositions(n) ==
    IF n.kind # "dir" THEN {}
    ELSE {<<>>} \cup
         UNION { { <<i>> \o q : q \in DirPositions(n.entries[i]) }
                 : i \in 1..Len(n.entries) }

RECURSIVE FsAt(_, _)
FsAt(n, pos) ==
    IF pos = <<>> THEN n ELSE FsAt(n.entries[Head(pos)], Tail(pos))

\* Tree n with the directory at pos replaced by f.
RECURSIVE FsPut(_, _, _)
FsPut(n, pos, f) ==
    IF pos = <<>> THEN f
    ELSE [n EXCEPT !.entries[Head(pos)] = FsPut(@, Tail(pos), f)]

\* The path string of the entry at pos, as typed from the working directory.
RECURSIVE PathOf(_, _)
PathOf(n, pos) ==
    IF pos = <<>> THEN <<>>
    ELSE IF Tail(pos) = <<>> THEN n.entries[Head(pos)].name
    ELSE join(n.entries[Head(pos)].name,
              PathOf(n.entries[Head(pos)], Tail(pos)))

\* The positions of all the entries of a tree, the root left out.
RECURSIVE EntryPositions(_)
EntryPositions(n) ==
    UNION { {<<i>>} \cup { <<i>> \o q : q \in EntryPositions(n.entries[i]) }
            : i \in 1..Len(n.entries) }

-----------------------------------------------------------------------------
(* Python values.  Every value a variable may hold is a record with a      *)
(* `type`, so that a node, None and a raised exception compare.            *)

NoneValue == [type |-> "None"]

Raised(exc) == [type |-> exc]

FileNode(name) == [type |-> "FileNode", name |-> name]

DirectoryNode(name) ==
    [type |-> "DirectoryNode", name |-> name,
     files |-> <<>>, subdirectories |-> <<>>]

IsNode(v) == v.type = "DirectoryNode"

-----------------------------------------------------------------------------
(* list_files.                                                             *)

\* Mutation of depth_exceeded: the limit taken one level too deep.
depth_exceeded_late(level, max_depth) ==
    max_depth # <<>> /\ level > max_depth[1] + 1

\* Line 25: the depth test at entry.
depth_exceeded(level, max_depth) ==
    max_depth # <<>> /\ level > max_depth[1]

\* Mutation of node_name: the full path kept at every level.
node_name_full(startpath, level) == startpath

\* Line 28: the name a node gets.
node_name(startpath, level) ==
    IF level > 0 THEN basename(startpath) ELSE startpath

\* Mutation of skip_hidden: the test left out.
skip_hidden_never(show_hidden, name) == FALSE

\* Line 33: the hidden-entry test.
skip_hidden(show_hidden, name) ==
    ~show_hidden /\ startswith_dot(name)

\* Mutation of except_PermissionError: the handler left out, the exception
\* travelling on to the caller.
except_nothing(dnode) == Raised("PermissionError")

\* Lines 41-44: PermissionError is swallowed and the node, as far as it was
\* filled, is returned.
except_PermissionError(dnode) == dnode

RECURSIVE list_files(_, _, _, _, _)
RECURSIVE scan_loop(_, _, _, _, _, _, _)

\* Lines 31-44: the loop over os.scandir(startpath) from its i-th entry on,
\* dnode being what the earlier entries made of it.
scan_loop(root, startpath, i, dnode, show_hidden, level, max_depth) ==
    LET d == Resolve(root, startpath)
    IN  IF d.kind = "missing" THEN Raised("FileNotFoundError")
        ELSE IF d.kind # "dir" THEN Raised("NotADirectoryError")
        ELSE IF d.denied /\ i = d.yielded + 1
             THEN except_PermissionError(dnode)
        ELSE IF i > Len(d.entries) THEN dnode
        ELSE
          LET entry == d.entries[i]
              continue(node) ==
                  scan_loop(root, startpath, i + 1, node,
                            show_hidden, level, max_depth)
          IN  IF skip_hidden(show_hidden, entry.name)
                  THEN continue(dnode)
              ELSE IF entry.kind = "file"
                  THEN continue([dnode EXCEPT
                           !.files = Append(@, FileNode(entry.name))])
              ELSE IF entry.kind = "dir"
                  THEN LET subdnode ==
                               list_files(root, join(startpath, entry.name),
                                          show_hidden, level + 1, max_depth)
                       IN  IF IsNode(subdnode)
                               THEN continue([dnode EXCEPT
                                   !.subdirectories = Append(@, subdnode)])
                           ELSE IF subdnode = NoneValue
                               THEN continue(dnode)
                           ELSE IF subdnode = Raised("PermissionError")
                               THEN except_PermissionError(dnode)
                           ELSE subdnode
              ELSE continue(dnode)

\* Lines 19-44.  root is the filesystem the path strings are resolved in.
list_files(root, startpath, show_hidden, level, max_depth) ==
    IF depth_exceeded(level, max_depth) THEN NoneValue
    ELSE scan_loop(root, startpath, 1,
                   DirectoryNode(node_name(startpath, level)),
                   show_hidden, level, max_depth)

-----------------------------------------------------------------------------
(* print_directory.  A line is the string printed, indentation included.   *)

Line(text) == [msg |-> "entry", text |-> text]

RECURSIVE print_directory(_, _)
RECURSIVE print_subdirectories(_, _)

\* The indentation unit of line 48, in spaces.
IndentUnit == 2

\* Line 48.
sub_indent_of(indent) == indent \o [i \in 1..IndentUnit |-> " "]

\* Mutation of emit: the subdirectories printed before the files.
emit_subdirectories_first(name_line, file_lines, subdirectory_lines) ==
    name_line \o subdirectory_lines \o file_lines

\* Lines 47, 49-50, 51-52 in the order they run: the name, the files, the
\* subdirectories.
emit(name_line, file_lines, subdirectory_lines) ==
    name_line \o file_lines \o subdirectory_lines

\* Lines 46-52.
print_directory(node, indent) ==
    LET sub_indent == sub_indent_of(indent)
    IN  emit(<<Line(indent \o node.name)>>,
             [i \in 1..Len(node.files) |->
                 Line(sub_indent \o node.files[i].name)],
             print_subdirectories(node.subdirectories, sub_indent))

\* Lines 51-52: the loop over node.subdirectories.
print_subdirectories(subs, sub_indent) ==
    IF subs = <<>> THEN <<>>
    ELSE print_directory(Head(subs), sub_indent)
         \o print_subdirectories(Tail(subs), sub_indent)

-----------------------------------------------------------------------------
(* The XML mapping.  An element is its tag, its attributes (here the one   *)
(* attribute `name`: <<>> when absent, <<value>> when present) and its     *)
(* children.  In the file an attribute value is a sequence of units, each  *)
(* a raw character or a reference such as "&amp;".                         *)

Element(tag, attrib, children) ==
    [type |-> "Element", tag |-> tag, attrib |-> attrib, children |-> children]

\* Lines 55-61.
RECURSIVE to_element(_)
to_element(node) ==
    Element("directory", <<node.name>>,
        [i \in 1..Len(node.files) |->
            Element("file", <<node.files[i].name>>, <<>>)]
        \o [i \in 1..Len(node.subdirectories) |->
            to_element(node.subdirectories[i])])

\* ElementTree's _escape_attrib, one character.
escape_char(c) ==
    CASE c = "&"  -> "&amp;"
      [] c = "<"  -> "&lt;"
      [] c = ">"  -> "&gt;"
      [] c = "\"" -> "&quot;"
      [] c = "\r" -> "&#13;"
      [] c = "\n" -> "&#10;"
      [] c = "\t" -> "&#09;"
      [] OTHER    -> c

escape_attrib(text) == [i \in 1..Len(text) |-> escape_char(text[i])]

\* Line 65, ElementTree.write: the element as the file holds it.
RECURSIVE serialize(_)
serialize(e) ==
    [type |-> "xml", tag |-> e.tag,
     attrib |-> [i \in 1..Len(e.attrib) |-> escape_attrib(e.attrib[i])],
     children |-> [i \in 1..Len(e.children) |-> serialize(e.children[i])]]

\* Lines 54-65: what save_to_xml leaves in the file.
save_to_xml(dnode) == <<serialize(to_element(dnode))>>

\* The raw characters expat rejects inside an attribute value.
IllegalRaw == {"&", "<", Ctl}

\* expat's reading of one unit: references are resolved, raw white space is
\* normalised to a blank.
unescape_unit(u) ==
    CASE u = "&amp;"  -> "&"
      [] u = "&lt;"   -> "<"
      [] u = "&gt;"   -> ">"
      [] u = "&quot;" -> "\""
      [] u = "&#13;"  -> "\r"
      [] u = "&#10;"  -> "\n"
      [] u = "&#09;"  -> "\t"
      [] u = "\r"     -> " "
      [] u = "\n"     -> " "
      [] u = "\t"     -> " "
      [] OTHER        -> u

RECURSIVE well_formed(_)
well_formed(x) ==
    /\ \A a \in 1..Len(x.attrib) :
           \A i \in 1..Len(x.attrib[a]) : x.attrib[a][i] \notin IllegalRaw
    /\ \A c \in 1..Len(x.children) : well_formed(x.children[c])

RECURSIVE read_element(_)
read_element(x) ==
    Element(x.tag,
        [a \in 1..Len(x.attrib) |->
            [i \in 1..Len(x.attrib[a]) |-> unescape_unit(x.attrib[a][i])]],
        [c \in 1..Len(x.children) |-> read_element(x.children[c])])

\* Lines 77-78, ET.parse(filepath).getroot().
parse(file) ==
    IF file = <<>> THEN Raised("FileNotFoundError")
    ELSE IF ~well_formed(file[1]) THEN Raised("ParseError")
    ELSE read_element(file[1])

\* Mutation of is_directory_tag: every child that is no file read as a
\* directory.
is_directory_tag_else(tag) == tag # "file"

\* Line 73: the tag that makes a child a subdirectory.
is_directory_tag(tag) == tag = "directory"

\* Lines 69 and 72: element.attrib['name'].
has_name(element) == element.attrib # <<>>

RECURSIVE from_element(_)
RECURSIVE from_children(_, _)

\* Lines 70-75: the loop over the children left to read.
from_children(children, dnode) ==
    IF children = <<>> THEN dnode
    ELSE LET child == Head(children)
         IN  IF child.tag = "file"
                 THEN IF has_name(child)
                      THEN from_children(Tail(children), [dnode EXCEPT
                               !.files = Append(@, FileNode(child.attrib[1]))])
                      ELSE Raised("KeyError")
             ELSE IF is_directory_tag(child.tag)
                 THEN LET sub == from_element(child)
                      IN  IF IsNode(sub)
                          THEN from_children(Tail(children), [dnode EXCEPT
                                   !.subdirectories = Append(@, sub)])
                          ELSE sub
             ELSE from_children(Tail(children), dnode)

\* Lines 68-75.
from_element(element) ==
    IF has_name(element)
    THEN from_children(element.children, DirectoryNode(element.attrib[1]))
    ELSE Raised("KeyError")

\* Lines 67-79.
load_from_xml(file) ==
    LET root == parse(file)
    IN  IF root.type = "Element" THEN from_element(root) ELSE root

-----------------------------------------------------------------------------
(* The environment: what is on disk before the program runs.               *)

Tags == {"directory", "file", "other"}

\* The name attributes the environment writes: none, an empty one, a plain
\* one.
DocAttribs == { <<>>, << <<>> >>, << <<"a">> >> }

XmlElement(tag, attrib) ==
    [type |-> "xml", tag |-> tag, attrib |-> attrib, children |-> <<>>]

RECURSIVE DocSize(_)
RECURSIVE DocSizeSeq(_)
DocSize(x) == 1 + DocSizeSeq(x.children)
DocSizeSeq(s) == IF s = <<>> THEN 0 ELSE DocSize(Head(s)) + DocSizeSeq(Tail(s))

RECURSIVE DocPositions(_)
DocPositions(x) ==
    {<<>>} \cup
    UNION { { <<i>> \o q : q \in DocPositions(x.children[i]) }
            : i \in 1..Len(x.children) }

RECURSIVE DocAppend(_, _, _)
DocAppend(x, pos, leaf) ==
    IF pos = <<>> THEN [x EXCEPT !.children = Append(@, leaf)]
    ELSE [x EXCEPT !.children[Head(pos)] = DocAppend(@, Tail(pos), leaf)]

EnvSize == (FsSize(fs) - 1) + DocSizeSeq(disk)

XmlFile == <<"f">>

NoArgs ==
    [directory |-> <<Dot>>, all |-> FALSE, max_depth |-> <<>>,
     save |-> <<>>, load |-> <<>>]

Init ==
    /\ fs = Entry("dir", <<Dot>>)
    /\ disk = <<>>
    /\ pc = "env"
    /\ args = NoArgs
    /\ directory_node = NoneValue
    /\ stdout = <<>>
    /\ calls = {}

Locals == <<pc, args, directory_node, stdout, calls>>

\* The environment creates an entry, the last of its directory.
EnvAddEntry ==
    /\ pc = "env"
    /\ EnvSize < MaxObjects
    /\ \E pos \in DirPositions(fs), name \in FsNames, kind \in Kinds :
          LET d == FsAt(fs, pos)
          IN  /\ \A i \in 1..Len(d.entries) : d.entries[i].name # name
              /\ fs' = FsPut(fs, pos,
                     [d EXCEPT !.entries = Append(@, Entry(kind, name))])
    /\ UNCHANGED <<disk, Locals>>

\* The environment makes the listing of a directory fail, after k entries.
EnvDeny ==
    /\ pc = "env"
    /\ EnvSize < MaxObjects
    /\ \E pos \in DirPositions(fs) :
          LET d == FsAt(fs, pos)
          IN  /\ ~d.denied
              /\ \E k \in 0..Len(d.entries) :
                    fs' = FsPut(fs, pos,
                              [d EXCEPT !.denied = TRUE, !.yielded = k])
    /\ UNCHANGED <<disk, Locals>>

\* The environment writes one more element into the XML file.
EnvAddElement ==
    /\ pc = "env"
    /\ EnvSize < MaxObjects
    /\ \E tag \in Tags, attrib \in DocAttribs :
          IF disk = <<>>
          THEN disk' = <<XmlElement(tag, attrib)>>
          ELSE \E pos \in DocPositions(disk[1]) :
                  disk' = <<DocAppend(disk[1], pos, XmlElement(tag, attrib))>>
    /\ UNCHANGED <<fs, Locals>>

-----------------------------------------------------------------------------
(* main.                                                                   *)

\* A path no entry has.
MissingPath == <<"n", "o">>

\* The directory arguments explored: the working directory, every entry
\* there is, the top-level entries with a trailing separator, a missing
\* path.
DirArgs ==
    {<<Dot>>, MissingPath}
    \cup { PathOf(fs, pos) : pos \in EntryPositions(fs) }
    \cup { fs.entries[i].name \o <<Sep>> : i \in 1..Len(fs.entries) }

\* --max-depth: absent, or an integer.
DepthArgs == {<<>>} \cup { <<d>> : d \in -1..MaxDepthArg }

Message(msg, text) == [msg |-> msg, text |-> text]

\* Line 88: the arguments of a load run.
LoadArgs(file) == [NoArgs EXCEPT !.load = <<file>>]

\* Line 88: the arguments of a scan run.  The flags a run never reads are
\* left at their defaults: --all and --max-depth when the target is no
\* directory, --all and --save when the depth limit is negative.
ScanArgs ==
    { a \in [directory : DirArgs, all : BOOLEAN, max_depth : DepthArgs,
             save : {<<>>, <<XmlFile>>}, load : {<<>>}] :
        /\ isdir(a.directory) \/ (~a.all /\ a.max_depth = <<>>)
        /\ a.max_depth = <<-1>> => (~a.all /\ a.save = <<>>) }

\* Lines 90-93: the load branch.  An exception of load_from_xml ends main.
LoadBranch(a) ==
    /\ args' = a
    /\ LET loaded == load_from_xml(disk)
       IN  IF IsNode(loaded)
           THEN /\ directory_node' = loaded
                /\ stdout' = <<Message("loaded_from", a.load[1])>>
                                 \o print_directory(loaded, <<>>)
                /\ calls' = {"load_from_xml", "print_directory"}
                /\ pc' = "done"
           ELSE /\ directory_node' = NoneValue
                /\ stdout' = <<>>
                /\ calls' = {"load_from_xml"}
                /\ pc' = loaded.type
    /\ UNCHANGED <<fs, disk>>

\* main with --load, on whatever the environment left in the file.
MainLoad ==
    /\ pc = "env"
    /\ LoadBranch(LoadArgs(XmlFile))

\* A later run of main that loads the file the run before saved.
MainReload ==
    /\ pc = "done"
    /\ "save_to_xml" \in calls
    /\ LoadBranch(LoadArgs(args.save[1]))

\* Mutation of scan_allowed: the test of line 99 left out.
scan_allowed_always(directory) == TRUE

\* Line 99: the scan goes on when the target is a directory.
scan_allowed(directory) == isdir(directory)

\* Lines 95-101: main without --load, the target being no directory.
MainNotDir ==
    /\ pc = "env"
    /\ disk = <<>>
    /\ \E a \in ScanArgs :
          /\ ~scan_allowed(a.directory)
          /\ args' = a
          /\ stdout' = <<Message("not_a_directory", a.directory)>>
    /\ pc' = "done"
    /\ UNCHANGED <<fs, disk, directory_node, calls>>

\* Lines 103-109 once the tree is built and printed: --save, if given.
SaveBranch(a, built) ==
    IF a.save # <<>>
    THEN /\ disk' = save_to_xml(built)
         /\ stdout' = <<Message("structure_of", a.directory)>>
                          \o print_directory(built, <<>>)
                          \o <<Message("saved_to", a.save[1])>>
         /\ calls' = {"list_files", "print_directory", "save_to_xml"}
    ELSE /\ disk' = disk
         /\ stdout' = <<Message("structure_of", a.directory)>>
                          \o print_directory(built, <<>>)
         /\ calls' = {"list_files", "print_directory"}

\* Lines 95-109: main without --load, the target being a directory.  The
\* scan is explored where the XML file does not exist yet.  list_files
\* returning None makes print_directory raise AttributeError, after the
\* heading is printed.
MainScan ==
    /\ pc = "env"
    /\ disk = <<>>
    /\ \E a \in ScanArgs :
          /\ scan_allowed(a.directory)
          /\ args' = a
          /\ LET built == list_files(fs, a.directory, a.all, 0, a.max_depth)
             IN  IF IsNode(built)
                 THEN /\ directory_node' = built
                      /\ SaveBranch(a, built)
                      /\ pc' = "done"
                 ELSE IF built = NoneValue
                 THEN /\ directory_node' = built
                      /\ stdout' = <<Message("structure_of", a.directory)>>
                      /\ calls' = {"list_files", "print_directory"}
                      /\ pc' = "AttributeError"
                      /\ disk' = disk
                 ELSE /\ directory_node' = NoneValue
                      /\ stdout' = <<>>
                      /\ calls' = {"list_files"}
                      /\ pc' = built.type
                      /\ disk' = disk
    /\ UNCHANGED fs

Next ==
    \/ EnvAddEntry
    \/ EnvDeny
    \/ EnvAddElement
    \/ MainLoad
    \/ MainReload
    \/ MainNotDir
    \/ MainScan

Spec == Init /\ [][Next]_vars

-----------------------------------------------------------------------------
(* What the claims speak of.                                               *)

\* A scan run has ended normally.
ScanDone == pc = "done" /\ "list_files" \in calls

\* A load run has ended, normally or not.
LoadEnded == pc # "env" /\ "load_from_xml" \in calls

\* The nodes of a tree, each with its depth and the path list_files was
\* given for it, the root's being `path`.
RECURSIVE TreeNodes(_, _, _)
TreeNodes(n, path, depth) ==
    { [node |-> n, path |-> path, depth |-> depth] }
    \cup UNION { TreeNodes(n.subdirectories[i],
                           join(path, n.subdirectories[i].name), depth + 1)
                 : i \in 1..Len(n.subdirectories) }

NamesOf(s) == [i \in 1..Len(s) |-> s[i].name]

\* The entries the listing of directory d yields before it ends or fails.
Listed(d) == IF d.denied THEN SubSeq(d.entries, 1, d.yielded) ELSE d.entries

\* The names of the entries of one kind that a scan of d takes, in order.
TakenNames(d, kind, show_hidden) ==
    LET Taken(e) == e.kind = kind /\ (show_hidden \/ ~startswith_dot(e.name))
    IN  NamesOf(SelectSeq(Listed(d), Taken))

\* The tree of the run, as TreeNodes, rooted at the directory argument.
BuiltNodes == TreeNodes(directory_node, args.directory, 0)

Spaces(k) == [i \in 1..k |-> " "]

-----------------------------------------------------------------------------
(* C1.  Hidden entries.                                                    *)

\* A name a scan without --all is said never to show: the base name starts
\* with a dot.  The working directory's own designator "." is not counted.
HiddenName(name) ==
    startswith_dot(basename(name)) /\ basename(name) # <<Dot>>

\* C1, as claimed: after a scan with includeHidden = false no node of the
\* tree, the root included, and no file has a base name starting with a dot.
C1_NoHiddenAnywhere ==
    (ScanDone /\ ~args.all) =>
        \A t \in BuiltNodes :
            /\ ~HiddenName(t.node.name)
            /\ \A i \in 1..Len(t.node.files) : ~HiddenName(t.node.files[i].name)

\* C1, amended: after a scan with includeHidden = false no node other than
\* the root, and no file, has a name starting with a dot; the root is the
\* directory the caller named, hidden or not.
C1_NoHiddenBelowRoot ==
    (ScanDone /\ ~args.all) =>
        \A t \in BuiltNodes :
            /\ t.depth > 0 => ~startswith_dot(t.node.name)
            /\ \A i \in 1..Len(t.node.files) :
                   ~startswith_dot(t.node.files[i].name)

\* A scan without --all of a directory that holds a hidden directory with
\* something in it, and a file that is shown.
C1_Witness ==
    /\ ScanDone /\ ~args.all
    /\ \E e \in { Resolve(fs, args.directory).entries[i] :
                    i \in 1..Len(Resolve(fs, args.directory).entries) } :
           e.kind = "dir" /\ startswith_dot(e.name) /\ e.entries # <<>>
    /\ directory_node.files # <<>>

-----------------------------------------------------------------------------
(* C2.  The depth limit.                                                   *)

\* C2: after a scan with maxDepth = d no node lies deeper than d; every node
\* holds the files its directory's listing yielded; a node at depth d has no
\* subdirectories and a node above depth d has those its listing yielded.
C2_DepthLimit ==
    (ScanDone /\ args.max_depth # <<>>) =>
        LET d == args.max_depth[1]
        IN  \A t \in BuiltNodes :
                LET dir == Resolve(fs, t.path)
                IN  /\ t.depth <= d
                    /\ NamesOf(t.node.files) = TakenNames(dir, "file", args.all)
                    /\ t.depth = d => t.node.subdirectories = <<>>
                    /\ t.depth < d =>
                           NamesOf(t.node.subdirectories)
                               = TakenNames(dir, "dir", args.all)

\* A scan whose limit cuts: a node at depth d with a file of its own, whose
\* directory holds a subdirectory the scan would otherwise have taken.
C2_Witness ==
    /\ ScanDone /\ args.max_depth # <<>>
    /\ \E t \in BuiltNodes :
           /\ t.depth = args.max_depth[1]
           /\ t.node.files # <<>>
           /\ TakenNames(Resolve(fs, t.path), "dir", args.all) # <<>>

-----------------------------------------------------------------------------
(* C5.  Names.                                                             *)

HasSep(name) == \E i \in 1..Len(name) : name[i] = Sep

\* C5: the root's name is the path as the caller gave it; every other node
\* and every file is named by the bare name of an entry of the directory
\* its parent was built from, with no separator in it.
C5_Names ==
    ScanDone =>
        /\ directory_node.name = args.directory
        /\ \A t \in BuiltNodes :
               LET here == { Resolve(fs, t.path).entries[i].name :
                               i \in 1..Len(Resolve(fs, t.path).entries) }
               IN  /\ \A i \in 1..Len(t.node.files) :
                          /\ ~HasSep(t.node.files[i].name)
                          /\ t.node.files[i].name \in here
                   /\ \A i \in 1..Len(t.node.subdirectories) :
                          /\ ~HasSep(t.node.subdirectories[i].name)
                          /\ t.node.subdirectories[i].name \in here

\* A scan of a path with a separator in it that finds a file and a
\* subdirectory.
C5_Witness ==
    /\ ScanDone
    /\ HasSep(args.directory)
    /\ directory_node.name = args.directory
    /\ directory_node.files # <<>>
    /\ directory_node.subdirectories # <<>>

-----------------------------------------------------------------------------
(* C3.  The round trip.                                                    *)

\* C3, as claimed: a run that loads the file the run before saved ends with
\* the very tree that run had built and saved.
C3_RoundTrip ==
    [][("save_to_xml" \in calls)
          => (pc' = "done" /\ directory_node' = directory_node)]_vars

-----------------------------------------------------------------------------
(* C4.  The listing.                                                       *)

RECURSIVE TreeSize(_)
RECURSIVE TreeSizeSeq(_)
TreeSize(n) == 1 + Len(n.files) + TreeSizeSeq(n.subdirectories)
TreeSizeSeq(s) ==
    IF s = <<>> THEN 0 ELSE TreeSize(Head(s)) + TreeSizeSeq(Tail(s))

\* Node n, of depth k, stands in `lines` from line o on: its name at k
\* units, its files next at k + 1 units in stored order, then the blocks of
\* its subdirectories one after the other in stored order.
RECURSIVE Placed(_, _, _, _)
Placed(n, o, k, lines) ==
    /\ lines[o] = Line(Spaces(IndentUnit * k) \o n.name)
    /\ \A i \in 1..Len(n.files) :
           lines[o + i] = Line(Spaces(IndentUnit * (k + 1)) \o n.files[i].name)
    /\ \A j \in 1..Len(n.subdirectories) :
           Placed(n.subdirectories[j],
                  o + 1 + Len(n.files)
                    + TreeSizeSeq(SubSeq(n.subdirectories, 1, j - 1)),
                  k + 1, lines)

\* The lines print_directory wrote, the headings of main left out.
Listing ==
    LET IsEntry(l) == l.msg = "entry" IN SelectSeq(stdout, IsEntry)

\* C4: the listing of a tree holds one line per node and file, in
\* depth-first pre-order with a node's files before its subdirectories, a
\* node of depth k at k units and its files at k + 1.
C4_RenderOrder ==
    (pc = "done" /\ "print_directory" \in calls) =>
        /\ Len(Listing) = TreeSize(directory_node)
        /\ Placed(directory_node, 1, 0, Listing)

\* A listing of a tree whose root has a file and a subdirectory that has a
\* file of its own.
C4_Witness ==
    /\ pc = "done" /\ "print_directory" \in calls
    /\ directory_node.files # <<>>
    /\ \E j \in 1..Len(directory_node.subdirectories) :
           directory_node.subdirectories[j].files # <<>>

-----------------------------------------------------------------------------
(* C6.  The root element.                                                  *)

\* C6, as claimed: a load run ends normally only on a document whose root
\* is a `directory` element bearing a name.
C6_RootMustBeDirectory ==
    (LoadEnded /\ pc = "done") =>
        (disk[1].tag = "directory" /\ has_name(disk[1]))

-----------------------------------------------------------------------------
(* C7.  Unknown elements.                                                  *)

KnownTags == {"directory", "file"}

\* Every directory and file element of the document bears a name.
RECURSIVE AllNamed(_)
AllNamed(x) ==
    /\ x.tag \in KnownTags => x.attrib # <<>>
    /\ \A c \in 1..Len(x.children) : AllNamed(x.children[c])

\* The document with every element of an unknown tag removed, with what is
\* nested under it.
RECURSIVE Strip(_)
Strip(x) ==
    LET Known(c) == c.tag \in KnownTags
        kept == SelectSeq(x.children, Known)
    IN  [x EXCEPT !.children = [i \in 1..Len(kept) |-> Strip(kept[i])]]

\* C7: on a parsable document rooted at a directory element, whose directory
\* and file elements all bear a name, load succeeds and returns what it
\* returns on the document with the unknown elements removed.
C7_UnknownIgnored ==
    (/\ LoadEnded /\ disk # <<>>
     /\ well_formed(disk[1])
     /\ disk[1].tag = "directory"
     /\ AllNamed(disk[1])) =>
        /\ pc = "done"
        /\ directory_node = load_from_xml(<<Strip(disk[1])>>)

\* A load of a document with an unknown element among the children of the
\* root, beside a file or a directory that is read.
C7_Witness ==
    /\ LoadEnded /\ pc = "done" /\ disk # <<>>
    /\ disk[1].tag = "directory" /\ AllNamed(disk[1])
    /\ \E c \in 1..Len(disk[1].children) :
           disk[1].children[c].tag \notin KnownTags
    /\ directory_node.files \o directory_node.subdirectories # <<>>

-----------------------------------------------------------------------------
(* C8.  Permission denied.                                                 *)

\* Directory d with every listing allowed and holding, where a listing
\* failed, only the entries yielded before the failure.
RECURSIVE Granted(_)
Granted(d) ==
    [d EXCEPT !.denied = FALSE, !.yielded = 0,
              !.entries = [i \in 1..Len(Listed(d)) |-> Granted(Listed(d)[i])]]

\* C8: no scan ends in PermissionError, and the tree of a scan is the tree
\* of the same scan over the directory with its failed listings cut short
\* and no failure.
C8_PermissionAbsorbed ==
    /\ pc # "PermissionError"
    /\ ScanDone =>
          directory_node =
              [list_files(Granted(Resolve(fs, args.directory)), <<Dot>>,
                          args.all, 0, args.max_depth)
                   EXCEPT !.name = args.directory]

\* A scan that meets a directory whose listing fails, takes it, and takes an
\* entry that follows it.
C8_Witness ==
    /\ ScanDone
    /\ LET es == Resolve(fs, args.directory).entries
       IN  \E i \in 1..Len(es) :
              /\ es[i].kind = "dir" /\ es[i].denied
              /\ es[i].name \in
                     { directory_node.subdirectories[j].name :
                         j \in 1..Len(directory_node.subdirectories) }
              /\ \E k \in (i + 1)..Len(es) :
                     es[k].name \in
                         { directory_node.files[j].name :
                             j \in 1..Len(directory_node.files) }
                         \cup { directory_node.subdirectories[j].name :
                                  j \in 1..Len(directory_node.subdirectories) }

-----------------------------------------------------------------------------
(* C9.  Names are never empty.                                             *)

\* C9, as claimed: every node and every file of a tree that a run built or
\* loaded has a name that is not empty.  Loads are looked at on documents
\* whose root is a directory element, which is the case C6 leaves alone.
C9_NamesNonEmpty ==
    (/\ pc = "done" /\ IsNode(directory_node)
     /\ LoadEnded => disk[1].tag = "directory") =>
        \A t \in TreeNodes(directory_node, <<>>, 0) :
            /\ t.node.name # <<>>
            /\ \A i \in 1..Len(t.node.files) : t.node.files[i].name # <<>>

-----------------------------------------------------------------------------
(* C10.  A scan target that is no directory.                               *)

\* C10: a run without --load whose target is no directory ends having
\* printed the one message, called no function of the module, built no tree
\* and written no file.
C10_NotADirectory ==
    (pc # "env" /\ args.load = <<>> /\ ~isdir(args.directory)) =>
        /\ pc = "done"
        /\ stdout = <<Message("not_a_directory", args.directory)>>
        /\ calls = {}
        /\ directory_node = NoneValue
        /\ disk = <<>>

\* Such a run on a regular file, with --save given.
C10_Witness ==
    /\ pc = "done" /\ args.load = <<>>
    /\ Resolve(fs, args.directory).kind = "file"
    /\ args.save # <<>>
    /\ stdout # <<>>

=============================================================================
